---- MODULE Spec2Model ----
(***************************************************************************)
(* A model of the KubeVirt AI agent's conversation loop (src/main.py):     *)
(* the MCP registry and its client connections, process_query's turn loop, *)
(* and the dispatch of tool calls to the shell executor or to a provider.  *)
(*                                                                         *)
(* Texts are sequences of tokens.  A token is either one of the characters *)
(* the result sanitizer looks at ("[", "/", "\\", "]", "<", ">"), a        *)
(* whitespace character, or a chunk of text that holds none of them.       *)
(***************************************************************************)
EXTENDS Integers, Sequences, FiniteSets, TLC

VARIABLES
    mcps,               \* MCPRegistry.mcps: the registered names, in order
    clients,            \* MCPRegistry.clients: the client objects, in dict order
    connected,          \* MCPRegistry.connected_clients: its keys, in dict order
    pc,                 \* where process_query stands
    connectIdx,         \* connect_all: index of the next client to connect
    messages,           \* process_query: the message history
    available_tools,    \* process_query: the catalog sent to the endpoint
    conversation_turn,  \* process_query: the turn counter
    response,           \* process_query: the last response received
    tool_calls,         \* process_query: the tool calls of this turn not yet run
    retval,             \* what process_query returned
    error,              \* what process_query raised
    apiCalls,           \* observation: endpoint calls issued in this run
    apiOutcome,         \* observation: how the latest endpoint call went
    dispatched,         \* observation: the latest _execute_tool_call
    script,             \* environment: how the endpoint behaves in this run
    runs,               \* number of process_query calls started on this agent
    lastOp,             \* observation: the latest call made on a client directly
    sanitized           \* observation: the latest text sanitized and its result

vars == <<mcps, clients, connected, pc, connectIdx, messages, available_tools,
          conversation_turn, response, tool_calls, retval, error, apiCalls,
          apiOutcome, dispatched, script, runs, lastOp, sanitized>>

-----------------------------------------------------------------------------
(* Bounds of the model *)

\* process_query is called at most MaxRuns times on one agent
MaxRuns == 2
\* a free-form conversation is explored while its history holds at most
\* MaxHistory messages
MaxHistory == 4
\* a free-form response carries at most MaxCalls tool_use blocks
MaxCalls == 2
\* the longest raw text handed to the sanitizer on its own
MaxText == 3
\* connect() calls on one client outside process_query
MaxConnects == 2
\* segments in the content of a provider's answer
MaxSegments == 2
\* tokens in what a shell command writes to an output stream
MaxOutput == 2
\* add_mcp calls made on one registry
MaxAdds == 3

(* Program constants *)

max_safety_turns == 50

BuiltinTool == "execute_shell_command"

-----------------------------------------------------------------------------
(* Python values *)

None == <<>>
Some(x) == <<x>>

Range(s) == {s[i] : i \in 1..Len(s)}

RECURSIVE Flatten(_)
Flatten(ss) == IF ss = <<>> THEN <<>> ELSE Head(ss) \o Flatten(Tail(ss))

Whitespace == {" ", "\n"}

\* str.strip(): drops the leading and the trailing whitespace
RECURSIVE LStrip(_)
LStrip(s) == IF s # <<>> /\ Head(s) \in Whitespace THEN LStrip(Tail(s)) ELSE s

RECURSIVE RStrip(_)
RStrip(s) ==
    IF s # <<>> /\ s[Len(s)] \in Whitespace
    THEN RStrip(SubSeq(s, 1, Len(s) - 1))
    ELSE s

\* a strip that forgets the trailing whitespace
StripLeadingOnly(s) == LStrip(s)

Strip(s) == RStrip(LStrip(s))

\* str.replace(a b, rep) on a text, for a two-character pattern
RECURSIVE ReplacePair(_, _, _, _)
ReplacePair(s, a, b, rep) ==
    IF Len(s) < 2 THEN s
    ELSE IF s[1] = a /\ s[2] = b
         THEN rep \o ReplacePair(SubSeq(s, 3, Len(s)), a, b, rep)
         ELSE <<s[1]>> \o ReplacePair(Tail(s), a, b, rep)

\* str.replace(a, rep) on a text, for a one-character pattern
ReplaceChar(s, a, rep) == [i \in 1..Len(s) |-> IF s[i] = a THEN rep ELSE s[i]]

\* a sanitizer that forgets the last of the four replacements
SanitizeKeepsGt(text) ==
    ReplaceChar(
        ReplacePair(ReplacePair(text, "[", "/", <<"[", "_", "/">>),
                    "\\", "]", <<"_", "]">>),
        "<", "&lt;")

\* the result sanitizer: "[/" to "[_/", "\]" to "_]", "<" to "&lt;",
\* ">" to "&gt;", in this order
Sanitize(text) ==
    ReplaceChar(
        ReplaceChar(
            ReplacePair(ReplacePair(text, "[", "/", <<"[", "_", "/">>),
                        "\\", "]", <<"_", "]">>),
            "<", "&lt;"),
        ">", "&gt;")

\* dict[key] = value on a dict of which only the key order is kept
DictSet(keys, k) == IF k \in Range(keys) THEN keys ELSE Append(keys, k)

-----------------------------------------------------------------------------
(* The environment: provider servers, the shell, the model endpoint *)

\* the names _initialize_mcps registers, in the order of the configuration
Providers == <<"p1", "p2">>

\* what a provider's server answers to list_tools
ServerTools(p) ==
    IF p = "p1" THEN <<"get_logs", BuiltinTool>> ELSE <<"get_logs", "list_vms">>

\* the tool names the model may ask for
ToolNames == {BuiltinTool, "get_logs", "list_vms", "nope"}

\* how one connect() may go: it succeeds, it fails before the session
\* object is created, or it fails in initialize() / list_tools()
ConnectOutcomes == {"ok", "fail_transport", "fail_session"}

\* how running a shell command may go
ShellOutcomes == {"exit0", "nonzero", "timeout", "launch_error"}

\* what the shell command writes
Stdout == <<" ", "[", "/", "opt", "]", "<", "ok", ">", "\n">>
Stderr == <<"\\", "]", "no such file", "\n">>

\* the first text segment of a provider's answer
ProviderText == <<"<", "log", ">", "[", "/", "opt", "/", "cni", "]">>

NoId == <<>>

TextBlock(t) ==
    [type |-> "text", text |-> t, id |-> NoId, name |-> "", input |-> <<>>]

ToolUseBlock(id, n) ==
    [type |-> "tool_use", text |-> <<>>, id |-> id, name |-> n,
     input |-> <<"input of", id>>]

\* the tool_use blocks of a response of turn t asking for the tools names
CallBlocks(t, names) ==
    [k \in 1..Len(names) |-> ToolUseBlock(<<t, k>>, names[k])]

NameSeqs(n) == UNION {[1..k -> ToolNames] : k \in 0..n}

\* the needs-tools responses with at most n requests
ToolUseResponses(t, n) ==
    {[stop_reason |-> "tool_use",
      content |-> <<TextBlock(<<"thinking">>)>> \o CallBlocks(t, names)]
        : names \in NameSeqs(n)}

\* the needs-tools response of a uniform conversation
DefaultResponse(t) ==
    [stop_reason |-> "tool_use",
     content |-> <<TextBlock(<<"working">>)>> \o CallBlocks(t, <<BuiltinTool>>)]

\* the responses that end the conversation: the stop condition is not
\* tool_use, whatever the content holds
TerminalResponses(t) ==
    {[stop_reason |-> "end_turn", content |-> <<>>],
     [stop_reason |-> "end_turn", content |-> <<TextBlock(<<"done">>)>>],
     [stop_reason |-> "end_turn",
      content |-> <<TextBlock(<<"a">>), TextBlock(<<"b">>)>>],
     [stop_reason |-> "max_tokens",
      content |-> <<TextBlock(<<"a">>), ToolUseBlock(<<t, 1>>, "get_logs"),
                    TextBlock(<<"b">>)>>]}

\* A run follows one of two scripts.  In a free conversation the endpoint
\* answers anything while the history stays within MaxHistory; in a uniform
\* one it answers DefaultResponse on every turn before the last, where it
\* answers anything.  Either may end with a terminal response at any turn.
Scripts == {"free", "uniform"}

FreeTurn(s, t) == s = "free" \/ t = max_safety_turns

NeedsToolsResponses(s, t, len) ==
    IF s = "free"
    THEN {r \in ToolUseResponses(t, MaxCalls) : len + Len(r.content) <= MaxHistory}
    ELSE IF t = max_safety_turns
         THEN ToolUseResponses(t, MaxCalls)
         ELSE {DefaultResponse(t)}


-----------------------------------------------------------------------------
(* MCPClient *)

\* MCPClient.__init__
\* (attempts counts the connect() calls, that is the exit stacks the client
\* has created)
NewClient(n) ==
    [name |-> n, session |-> "none", exit_stack |-> "none", tools |-> <<>>,
     attempts |-> 0]

\* MCPClient.connect: the client after a connect() that went as outcome o.
\* A new exit stack replaces the old one on every attempt and is closed when
\* the attempt fails; the session attribute is overwritten once the
\* ClientSession has been entered; the tools only after list_tools answered.
ClientAfterConnect(c, o) ==
    CASE o = "ok" ->
            [c EXCEPT !.attempts = @ + 1,
                      !.exit_stack = "open", !.session = "open",
                      !.tools = ServerTools(c.name)]
      [] o = "fail_transport" ->
            [c EXCEPT !.attempts = @ + 1, !.exit_stack = "closed"]
      [] o = "fail_session" ->
            [c EXCEPT !.attempts = @ + 1,
                      !.exit_stack = "closed", !.session = "closed"]

\* a connect that reports success whatever happened
ConnectReturnsAlways(o) == TRUE

\* MCPClient.connect: its return value
ConnectReturns(o) == o = "ok"

\* how session.call_tool may go on the client c
CallOutcomes(c) ==
    CASE c.session = "none"   -> {"not_connected"}
      [] c.session = "closed" -> {"error"}
      [] OTHER                -> {"text", "error"}

\* MCPClient.call_tool: the text of the exception it raises
FailedToCallText(tool_name) ==
    <<"Failed to call tool '", tool_name, "': ", "reason">>

\* the segments of an answer's content: texts, and images, which have no
\* text attribute
TextSegment(t) == [type |-> "text", text |-> t]
ImageSegment == [type |-> "image", text |-> <<>>]

\* the answer behind the outcome "text": one text segment
DefaultContent == <<TextSegment(ProviderText)>>

\* str(result)
StrOfResult == <<"str(result)">>

\* MCPClient.call_tool, after session.call_tool answered with this content:
\* result.content[0].text when there is content, where reading .text of a
\* segment that has none raises; str(result) when there is no content
ResultText(content) ==
    IF content # <<>>
    THEN IF content[1].type = "text"
         THEN [raised |-> FALSE, text |-> content[1].text]
         ELSE [raised |-> TRUE, text |-> <<"no attribute 'text'">>]
    ELSE [raised |-> FALSE, text |-> StrOfResult]

\* MCPClient.call_tool on an answer: what is raised inside the try block is
\* raised again as "Failed to call tool"
ClientCallToolAnswered(tool_name, content) ==
    IF ResultText(content).raised
    THEN [raised |-> TRUE, text |-> FailedToCallText(tool_name)]
    ELSE ResultText(content)

\* MCPClient.call_tool: [raised, text] for a call that went as outcome o
ClientCallTool(tool_name, o) ==
    CASE o = "not_connected" ->
            [raised |-> TRUE, text |-> <<"MCP client not connected">>]
      [] o = "text" ->
            ClientCallToolAnswered(tool_name, DefaultContent)
      [] OTHER ->
            [raised |-> TRUE, text |-> FailedToCallText(tool_name)]

\* a disconnect that closes the exit stack without checking that there is one
ClientDisconnectUnguarded(c) ==
    [raised |-> c.exit_stack = "none",
     client |-> IF c.exit_stack = "open"
                THEN [c EXCEPT !.exit_stack = "closed", !.session = "closed"]
                ELSE c]

\* MCPClient.disconnect: closes the exit stack if there is one; closing an
\* open stack ends the session and the server process it holds, closing a
\* closed one does nothing.  The session attribute is not cleared.
ClientDisconnect(c) ==
    [raised |-> FALSE,
     client |-> IF c.exit_stack = "open"
                THEN [c EXCEPT !.exit_stack = "closed", !.session = "closed"]
                ELSE c]

-----------------------------------------------------------------------------
(* MCPRegistry *)

ClientIndex(cl, n) == CHOOSE i \in 1..Len(cl) : cl[i].name = n

ClientNamed(cl, n) == cl[ClientIndex(cl, n)]

\* the entry add_mcp builds
McpEntry(name, config) == [name |-> name, config |-> config]

\* MCPClient.__init__ on the configuration add_mcp hands it: the copy of
\* config with the name added
NewClientFrom(name, config) ==
    [name |-> name, config |-> config, session |-> "none",
     exit_stack |-> "none", tools |-> <<>>, attempts |-> 0]

\* an add_mcp that puts the new entry in front
AddMcpInFront(ms, cl, name, config) ==
    [mcps |-> <<McpEntry(name, config)>> \o ms,
     clients |-> <<NewClientFrom(name, config)>> \o cl]

\* MCPRegistry.add_mcp: the entry is appended to mcps; clients[name] is
\* assigned a new client, which on a dict replaces the value of a key that
\* is there (the key keeps its place) and adds the key at the end otherwise
AddMcp(ms, cl, name, config) ==
    [mcps |-> Append(ms, McpEntry(name, config)),
     clients |-> IF \E i \in 1..Len(cl) : cl[i].name = name
                 THEN [i \in 1..Len(cl) |->
                         IF cl[i].name = name
                         THEN NewClientFrom(name, config) ELSE cl[i]]
                 ELSE Append(cl, NewClientFrom(name, config))]

\* MCPRegistry.list_mcps
ListMcps(ms) == ms

\* MCPRegistry.get_mcp: the first entry of mcps with this name, or None
GetMcp(ms, name) ==
    IF \E k \in 1..Len(ms) : ms[k].name = name
    THEN Some(ms[CHOOSE k \in 1..Len(ms) :
                    /\ ms[k].name = name
                    /\ \A j \in 1..(k - 1) : ms[j].name # name])
    ELSE None

\* MCPRegistry.get_client: connected_clients.get(name)
GetClient(cl, conn, name) ==
    IF name \in Range(conn) THEN Some(ClientNamed(cl, name)) ELSE None

\* a catalog that starts with the built-in descriptor
GetAllToolsBuiltinFirst(cl, conn) ==
    <<BuiltinTool>>
        \o Flatten([i \in 1..Len(conn) |-> ClientNamed(cl, conn[i]).tools])

\* MCPRegistry.get_all_tools_for_anthropic: the names of the catalog
GetAllToolsForAnthropic(cl, conn) ==
    Flatten([i \in 1..Len(conn) |-> ClientNamed(cl, conn[i]).tools])
        \o <<BuiltinTool>>

-----------------------------------------------------------------------------
(* KubeVirtAIAgent *)

\* execute_shell_command: the text it returns for a command that went as
\* outcome o with this exit code, standard output and standard error (the
\* failure text is written without the cross mark that leads it in the
\* source)
ShellResult(o, code, out, err) ==
    CASE o = "exit0" -> Strip(out)
      [] o = "nonzero" ->
            <<"Command failed (exit code ", code, "): ">> \o Strip(err)
      [] o = "timeout" -> <<"Command timed out after 30 seconds">>
      [] OTHER -> <<"Failed to execute command: ", "reason">>

\* execute_shell_command: the text it returns
ExecuteShellCommand(o) == ShellResult(o, "1", Stdout, Stderr)

\* the command holds what console markup reads as a closing tag, "[/name]"
HasClosingTag(command) ==
    \E i \in 1..(Len(command) - 3) :
        /\ command[i] = "["
        /\ command[i + 1] = "/"
        /\ command[i + 2] \notin {"[", "]"}
        /\ command[i + 3] = "]"

\* how a call of execute_shell_command may go: the command is first echoed
\* with console.print inside "[blue]...[/blue]" markup, which raises when the
\* command holds a closing tag that matches no open tag; otherwise the
\* command is run
ShellCallOutcomes(command) ==
    IF HasClosingTag(command) THEN {"echo_error"} ELSE ShellOutcomes

\* execute_shell_command as a whole.  The error of the echo is caught by
\* "except Exception", whose own console.print of the error text, which
\* quotes the tag, raises again, out of the function.  On a timeout
\* subprocess.run kills the shell it started and nothing else: a process the
\* shell had forked for the command keeps running.
ExecuteShellCommandCall(command, o, code, out, err, forked) ==
    IF o = "echo_error"
    THEN [raised |-> TRUE, text |-> <<"closing tag doesn't match any open tag">>,
          left_running |-> FALSE]
    ELSE [raised |-> FALSE, text |-> ShellResult(o, code, out, err),
          left_running |-> o = "timeout" /\ forked]

\* _load_agent_prompt: the content of the prompt file; any exception of
\* open() or read(), a missing file included, is caught and a built-in
\* prompt is returned
DefaultPrompt == <<"You are a helpful KubeVirt assistant.">>

LoadAgentPrompt(prompt_file) ==
    IF prompt_file = None THEN DefaultPrompt ELSE prompt_file[1]

\* add_mcp for each of these server names in turn, on an empty registry
RECURSIVE AddAll(_)
AddAll(servers) ==
    IF servers = <<>> THEN [mcps |-> <<>>, clients |-> <<>>]
    ELSE LET before == AddAll(SubSeq(servers, 1, Len(servers) - 1))
         IN  AddMcp(before.mcps, before.clients, servers[Len(servers)],
                    "config1")

\* _initialize_mcps: the registry it leaves.  A missing file returns early;
\* a file that is not JSON (JSONDecodeError) or not a JSON object (caught by
\* "except Exception") is reported on the console and nothing is loaded;
\* otherwise every server of "mcpServers" is registered in file order.
InitializeMcps(config_file) ==
    IF config_file.state \in {"missing", "invalid_json", "not_an_object"}
    THEN AddAll(<<>>)
    ELSE AddAll(config_file.servers)

\* KubeVirtAIAgent.__init__: the prompt is loaded, then _authenticate, which
\* raises again what get_anthropic_client raised, then _initialize_mcps
ConstructAgent(prompt_file, config_file, auth) ==
    IF auth = "fails"
    THEN [raised |-> TRUE, error |-> <<"authentication error">>,
          agent_prompt |-> LoadAgentPrompt(prompt_file), mcps |-> <<>>]
    ELSE [raised |-> FALSE, error |-> <<>>,
          agent_prompt |-> LoadAgentPrompt(prompt_file),
          mcps |-> InitializeMcps(config_file).mcps]

\* the model names the source falls back to
VertexModel == <<"claude-sonnet-4", "@", "20250514">>
VertexFastModel == <<"claude-3-5-haiku", "@", "20241022">>
StandardModel == <<"claude-3-5-sonnet-20241022">>
StandardFastModel == <<"claude-3-5-haiku-20241022">>

\* os.environ.get(name, default) on a variable that is unset (None) or set
EnvironGet(value, default) == IF value = None THEN default ELSE value[1]

\* a _get_model_name that hands a standard client the name unconverted
GetModelNameVerbatim(vertex, use_fast_model, env_model, env_fast_model) ==
    IF use_fast_model
    THEN EnvironGet(env_fast_model,
                    IF vertex THEN VertexFastModel ELSE StandardFastModel)
    ELSE EnvironGet(env_model, IF vertex THEN VertexModel ELSE StandardModel)

\* _get_model_name, for a client that has project_id (vertex) or has not
GetModelName(vertex, use_fast_model, env_model, env_fast_model) ==
    IF vertex
    THEN IF use_fast_model
         THEN EnvironGet(env_fast_model, VertexFastModel)
         ELSE EnvironGet(env_model, VertexModel)
    ELSE LET model == IF use_fast_model
                      THEN EnvironGet(env_fast_model, StandardFastModel)
                      ELSE EnvironGet(env_model, StandardModel)
         IN  IF "@" \in Range(model) THEN ReplaceChar(model, "@", "-")
             ELSE model

\* _build_agent_prompt: the servers the prompt lists
BuildAgentPrompt(registered) == [servers |-> registered]

\* an extraction that lists the tool calls last to first
RECURSIVE ExtractToolCallsReversed(_)
ExtractToolCallsReversed(content) ==
    IF content = <<>> THEN <<>>
    ELSE ExtractToolCallsReversed(Tail(content))
            \o (IF Head(content).type = "tool_use" THEN <<Head(content)>>
                ELSE <<>>)

\* _extract_tool_calls
RECURSIVE ExtractToolCalls(_)
ExtractToolCalls(content) ==
    IF content = <<>> THEN <<>>
    ELSE IF Head(content).type = "tool_use"
         THEN <<Head(content)>> \o ExtractToolCalls(Tail(content))
         ELSE ExtractToolCalls(Tail(content))

\* an extraction that stops at the first text block
ExtractTextContentFirst(content) ==
    IF \E i \in 1..Len(content) : content[i].type = "text"
    THEN content[CHOOSE i \in 1..Len(content) :
                    /\ content[i].type = "text"
                    /\ \A j \in 1..(i - 1) : content[j].type # "text"].text
    ELSE <<>>

\* _extract_text_content
RECURSIVE ExtractTextContent(_)
ExtractTextContent(content) ==
    IF content = <<>> THEN <<>>
    ELSE IF Head(content).type = "text"
         THEN Head(content).text \o ExtractTextContent(Tail(content))
         ELSE ExtractTextContent(Tail(content))

NotFound == "<no client>"

\* a scan that gives up after the first connected client
FindClientFirstOnly(cl, conn, tool_name) ==
    IF conn = <<>> THEN NotFound
    ELSE IF tool_name \in Range(ClientNamed(cl, Head(conn)).tools)
         THEN Head(conn)
         ELSE NotFound

\* _execute_tool_call: the scan of connected_clients for the tool
RECURSIVE FindClient(_, _, _)
FindClient(cl, conn, tool_name) ==
    IF conn = <<>> THEN NotFound
    ELSE IF tool_name \in Range(ClientNamed(cl, Head(conn)).tools)
         THEN Head(conn)
         ELSE FindClient(cl, Tail(conn), tool_name)

\* RouteOf scanning the connected clients before looking at the built-in name
RouteOfProvidersFirst(cl, conn, tool_name) ==
    IF FindClient(cl, conn, tool_name) # NotFound
    THEN FindClient(cl, conn, tool_name)
    ELSE IF tool_name = BuiltinTool THEN "shell" ELSE NotFound

\* _execute_tool_call: "shell", the name of a connected client, or NotFound
RouteOf(cl, conn, tool_name) ==
    IF tool_name = BuiltinTool THEN "shell" ELSE FindClient(cl, conn, tool_name)

\* NotFoundText without the fallback: the result stays empty
NotFoundTextMissing(tool_name) == <<>>

\* _execute_tool_call: the text for a tool nobody has
NotFoundText(tool_name) == <<"Tool '", tool_name, "' not found">>

\* how a dispatch to the target may go
DispatchOutcomes(cl, target) ==
    CASE target = "shell"  -> ShellOutcomes
      [] target = NotFound -> {"not_found"}
      [] OTHER             -> CallOutcomes(ClientNamed(cl, target))

\* the outcome a uniform conversation's dispatches have before the last turn
DefaultOutcome == "exit0"

\* _execute_tool_call: [raised, text, sent] of dispatching tool_call to the
\* target with outcome o; sent lists the calls made on the shell or a client
ExecuteToolCallResult(tool_call, target, o) ==
    CASE target = "shell" ->
            [raised |-> FALSE, text |-> ExecuteShellCommand(o),
             sent |-> <<[to |-> "shell", name |-> tool_call.name,
                         arguments |-> tool_call.input]>>]
      [] target = NotFound ->
            [raised |-> FALSE, text |-> NotFoundText(tool_call.name),
             sent |-> <<>>]
      [] OTHER ->
            [raised |-> ClientCallTool(tool_call.name, o).raised,
             text |-> ClientCallTool(tool_call.name, o).text,
             sent |-> IF o = "not_connected" THEN <<>>
                      ELSE <<[to |-> target, name |-> tool_call.name,
                              arguments |-> tool_call.input]>>]

\* ToolResultMessage with the id of the turn's first request on every result
ToolResultMessageFirstId(tool_call, tool_result) ==
    [role |-> "user", type |-> "tool_result",
     tool_use_id |-> <<tool_call.id[1], 1>>, content |-> tool_result]

\* process_query: the message that carries a tool result
ToolResultMessage(tool_call, tool_result) ==
    [role |-> "user", type |-> "tool_result",
     tool_use_id |-> tool_call.id, content |-> tool_result]

\* process_query: the message that carries the assistant's response
AssistantMessage(r) ==
    [role |-> "assistant", type |-> "blocks",
     tool_use_id |-> NoId, content |-> r.content]

\* process_query: the initial user message
UserMessage(content) ==
    [role |-> "user", type |-> "prompt", tool_use_id |-> NoId,
     content |-> content]

\* LoopCondition off by one
LoopConditionInclusive(turn) == turn <= max_safety_turns

\* process_query: the condition of its while loop
LoopCondition(turn) == turn < max_safety_turns

-----------------------------------------------------------------------------
(* The state after KubeVirtAIAgent.__init__: the configured servers are
   registered, none is connected, no query has run *)

Init ==
    /\ mcps = Providers
    /\ clients = [i \in 1..Len(Providers) |-> NewClient(Providers[i])]
    /\ connected = <<>>
    /\ pc = "idle"
    /\ connectIdx = 1
    /\ messages = <<>>
    /\ available_tools = <<>>
    /\ conversation_turn = 0
    /\ response = None
    /\ tool_calls = <<>>
    /\ retval = None
    /\ error = None
    /\ apiCalls = 0
    /\ apiOutcome = "none"
    /\ dispatched = None
    /\ script = "free"
    /\ runs = 0
    /\ lastOp = None
    /\ sanitized = None

registry == <<mcps, clients, connected>>

probes == <<lastOp, sanitized>>

\* process_query is called: its locals are fresh, connect_all starts
StartQuery ==
    /\ pc \in {"idle", "returned", "raised"}
    /\ runs < MaxRuns
    /\ runs' = runs + 1
    /\ script' \in Scripts
    /\ pc' = "connect"
    /\ connectIdx' = 1
    /\ messages' = <<>>
    /\ available_tools' = <<>>
    /\ conversation_turn' = 0
    /\ response' = None
    /\ tool_calls' = <<>>
    /\ retval' = None
    /\ error' = None
    /\ apiCalls' = 0
    /\ apiOutcome' = "none"
    /\ dispatched' = None
    /\ UNCHANGED <<registry, probes>>

\* connect_all: one iteration of its loop over clients.items()
ConnectClient ==
    /\ pc = "connect"
    /\ connectIdx <= Len(clients)
    /\ \E o \in ConnectOutcomes :
        /\ clients' = [clients EXCEPT
                         ![connectIdx] = ClientAfterConnect(@, o)]
        /\ connected' = IF ConnectReturns(o)
                        THEN DictSet(connected, clients[connectIdx].name)
                        ELSE connected
    /\ connectIdx' = connectIdx + 1
    /\ UNCHANGED <<mcps, pc, messages, available_tools, conversation_turn,
                   response, tool_calls, retval, error, apiCalls, apiOutcome,
                   dispatched, script, runs, probes>>

\* process_query, after connect_mcps returned: the prompt, the catalog,
\* the initial history and the turn counter
BuildConversation ==
    /\ pc = "connect"
    /\ connectIdx > Len(clients)
    /\ available_tools' = GetAllToolsForAnthropic(clients, connected)
    /\ messages' = <<UserMessage(BuildAgentPrompt(mcps))>>
    /\ conversation_turn' = 0
    /\ pc' = "loop"
    /\ UNCHANGED <<registry, connectIdx, response, tool_calls, retval, error,
                   apiCalls, apiOutcome, dispatched, script, runs, probes>>

\* EndpointFailure swallowed: the run returns an empty text
EndpointFailureSwallowed ==
    /\ retval' = Some(<<>>)
    /\ pc' = "returned"
    /\ UNCHANGED <<messages, response, tool_calls, error>>

\* process_query: messages.create raised; the except clause re-raises
EndpointFailure ==
    /\ error' = Some([source |-> "endpoint", text |-> <<"endpoint error">>])
    /\ pc' = "raised"
    /\ UNCHANGED <<messages, response, tool_calls, retval>>

\* NeedsTools keeping only the prompt and the latest response
NeedsToolsTrimsHistory(r) ==
    /\ response' = Some(r)
    /\ messages' = <<messages[1], AssistantMessage(r)>>
    /\ tool_calls' = ExtractToolCalls(r.content)
    /\ pc' = IF tool_calls' = <<>> THEN "loop" ELSE "tools"
    /\ UNCHANGED <<retval, error>>

\* process_query: the response asks for tools
NeedsTools(r) ==
    /\ response' = Some(r)
    /\ messages' = Append(messages, AssistantMessage(r))
    /\ tool_calls' = ExtractToolCalls(r.content)
    /\ pc' = IF tool_calls' = <<>> THEN "loop" ELSE "tools"
    /\ UNCHANGED <<retval, error>>

\* a MissionComplete that runs the tool calls a cut-off response holds
MissionCompleteRunsTools(r) ==
    /\ response' = Some(r)
    /\ tool_calls' = ExtractToolCalls(r.content)
    /\ retval' = IF tool_calls' = <<>>
                 THEN Some(ExtractTextContent(r.content)) ELSE retval
    /\ pc' = IF tool_calls' = <<>> THEN "returned" ELSE "tools"
    /\ UNCHANGED <<messages, error>>

\* process_query: the response asks for no tool
MissionComplete(r) ==
    /\ response' = Some(r)
    /\ retval' = Some(ExtractTextContent(r.content))
    /\ pc' = "returned"
    /\ UNCHANGED <<messages, tool_calls, error>>

\* process_query: one pass of the while loop up to the tool calls
CallEndpoint ==
    /\ pc = "loop"
    /\ LoopCondition(conversation_turn)
    /\ conversation_turn' = conversation_turn + 1
    /\ apiCalls' = apiCalls + 1
    /\ \/ /\ apiOutcome' = "raised"
          /\ EndpointFailure
       \/ /\ apiOutcome' = "answered"
          /\ \E r \in NeedsToolsResponses(script, conversation_turn', Len(messages))
                     \cup TerminalResponses(conversation_turn') :
                IF r.stop_reason = "tool_use"
                THEN NeedsTools(r)
                ELSE MissionComplete(r)
    /\ UNCHANGED <<registry, connectIdx, available_tools, dispatched, script, runs, probes>>

\* a raising tool call is tried again instead of ending the run
ToolCallRaisedRetries(res) ==
    UNCHANGED <<messages, tool_calls, error, pc>>

\* process_query: a tool call raised; the except clause re-raises
ToolCallRaised(res) ==
    /\ error' = Some([source |-> "tool", text |-> res.text])
    /\ pc' = "raised"
    /\ UNCHANGED <<messages, tool_calls>>

\* process_query: the tool call returned; its result joins the history
ToolCallReturned(tool_call, res) ==
    /\ messages' = Append(messages, ToolResultMessage(tool_call, res.text))
    /\ tool_calls' = Tail(tool_calls)
    /\ pc' = IF tool_calls' = <<>> THEN "loop" ELSE "tools"
    /\ UNCHANGED error

\* process_query: one iteration of the for loop over the tool calls
ExecuteToolCall ==
    /\ pc = "tools"
    /\ tool_calls # <<>>
    /\ LET tool_call == Head(tool_calls)
           target == RouteOf(clients, connected, tool_call.name)
       IN  \E o \in DispatchOutcomes(clients, target) :
            /\ FreeTurn(script, conversation_turn) \/ o = DefaultOutcome
            /\ LET res == ExecuteToolCallResult(tool_call, target, o)
               IN  /\ dispatched' = Some([call |-> tool_call, outcome |-> o,
                                          sent |-> res.sent, raised |-> res.raised,
                                          text |-> res.text])
                   /\ IF res.raised
                      THEN ToolCallRaised(res)
                      ELSE ToolCallReturned(tool_call, res)
    /\ UNCHANGED <<registry, connectIdx, available_tools, conversation_turn,
                   response, retval, apiCalls, apiOutcome, script, runs, probes>>

\* a safety valve that tears the providers down on its way out
SafetyValveDisconnects ==
    /\ pc = "loop"
    /\ ~LoopCondition(conversation_turn)
    /\ retval' = Some(ExtractTextContent(response[1].content))
    /\ pc' = "returned"
    /\ clients' = [i \in 1..Len(clients) |->
                    IF clients[i].name \in Range(connected)
                    THEN ClientDisconnect(clients[i]).client
                    ELSE clients[i]]
    /\ connected' = <<>>
    /\ UNCHANGED <<mcps, connectIdx, messages, available_tools,
                   conversation_turn, response, tool_calls, error, apiCalls,
                   apiOutcome, dispatched, script, runs, probes>>

\* process_query: the while loop ended on its condition
SafetyValve ==
    /\ pc = "loop"
    /\ ~LoopCondition(conversation_turn)
    /\ retval' = Some(ExtractTextContent(response[1].content))
    /\ pc' = "returned"
    /\ UNCHANGED <<registry, connectIdx, messages, available_tools,
                   conversation_turn, response, tool_calls, error, apiCalls,
                   apiOutcome, dispatched, script, runs, probes>>

Next ==
    \/ StartQuery
    \/ ConnectClient
    \/ BuildConversation
    \/ CallEndpoint
    \/ ExecuteToolCall
    \/ SafetyValve

Spec == Init /\ [][Next]_vars

\* process_query is one sequential coroutine: once started, each of its steps
\* is taken as soon as the awaited call before it has returned or raised.
\* Nothing obliges the caller to start another run.
RunStep ==
    \/ ConnectClient
    \/ BuildConversation
    \/ CallEndpoint
    \/ ExecuteToolCall
    \/ SafetyValve

FairSpec == Spec /\ WF_vars(RunStep)

-----------------------------------------------------------------------------
(* The command line: main() runs one process_query and tears the providers
   down in a finally clause; the run may be interrupted at any await *)

\* MCPRegistry.disconnect_all: disconnect() on every client of the connected
\* set, then the set is cleared; called lists the clients disconnect() ran on
DisconnectAll(cl, conn) ==
    [clients |-> [i \in 1..Len(cl) |->
                    IF cl[i].name \in Range(conn)
                    THEN ClientDisconnect(cl[i]).client
                    ELSE cl[i]],
     connected |-> <<>>,
     called |-> conn]

\* a teardown written after the call instead of in a finally clause
TeardownOnReturnOnly == {"returned"}

\* main: the ways out of process_query that pass through the finally clause
TeardownPoints == {"returned", "raised", "interrupted"}

\* main: agent.process_query(args.query, args.file), called once
MainStart ==
    /\ pc = "idle"
    /\ StartQuery

\* KeyboardInterrupt or cancellation at an await of process_query.  It is
\* not an Exception, so no except clause of connect() or process_query
\* handles it; when it lands inside connect(), the exit stack that connect()
\* had entered stays open and the client is not in the connected set.
Interrupt ==
    /\ pc \in {"connect", "loop", "tools"}
    /\ pc' = "interrupted"
    /\ \/ UNCHANGED clients
       \/ /\ pc = "connect"
          /\ connectIdx <= Len(clients)
          /\ clients' = [clients EXCEPT
                            ![connectIdx] = [@ EXCEPT !.attempts = @ + 1,
                                                      !.exit_stack = "open"]]
    /\ UNCHANGED <<mcps, connected, connectIdx, messages, available_tools,
                   conversation_turn, response, tool_calls, retval, error,
                   apiCalls, apiOutcome, dispatched, script, runs, probes>>

\* main: the finally clause, then the process ends
MainFinally ==
    /\ pc \in {"returned", "raised", "interrupted"}
    /\ pc' = "exited"
    /\ LET torn == pc \in TeardownPoints
           after == DisconnectAll(clients, connected)
       IN  /\ clients' = IF torn THEN after.clients ELSE clients
           /\ connected' = IF torn THEN after.connected ELSE connected
           /\ lastOp' = Some([op |-> "disconnect_all", before |-> connected,
                               called |-> IF torn THEN after.called ELSE <<>>])
    /\ UNCHANGED <<mcps, connectIdx, messages, available_tools,
                   conversation_turn, response, tool_calls, retval, error,
                   apiCalls, apiOutcome, dispatched, script, runs, sanitized>>

MainNext ==
    \/ MainStart
    \/ ConnectClient
    \/ BuildConversation
    \/ CallEndpoint
    \/ ExecuteToolCall
    \/ SafetyValve
    \/ Interrupt
    \/ MainFinally

MainSpec == Init /\ [][MainNext]_vars

-----------------------------------------------------------------------------
(* The clients on their own: connect, call_tool and disconnect are public
   methods, called here in any order on the clients of the registry *)

\* the tool names call_tool is given
CallNames == {"get_logs", "nope"}

\* the contents a provider may answer with
Segments == {TextSegment(<<"x">>), TextSegment(<<"y">>), ImageSegment}

Contents == UNION {[1..n -> Segments] : n \in 0..MaxSegments}

\* the clients on which disconnect() ran while they held an open exit stack
Released == IF lastOp = None THEN {} ELSE lastOp[1].released

Observe(op, i, raised, text, requests, content, released) ==
    Some([op |-> op, client |-> i, before |-> clients[i], raised |-> raised,
          text |-> text, requests |-> requests, content |-> content,
          released |-> released])

conversation ==
    <<pc, connectIdx, messages, available_tools, conversation_turn, response,
      tool_calls, retval, error, apiCalls, apiOutcome, dispatched, script, runs>>

\* client.connect()
Connect(i) ==
    /\ clients[i].attempts < MaxConnects
    /\ \E o \in ConnectOutcomes :
        /\ clients' = [clients EXCEPT ![i] = ClientAfterConnect(@, o)]
        /\ lastOp' = Observe("connect", i, FALSE, <<o>>, 0, None, Released)
    /\ UNCHANGED <<mcps, connected, conversation, sanitized>>

\* client.call_tool(tool_name)
CallTool(i) ==
    /\ \E tool_name \in CallNames, o \in CallOutcomes(clients[i]) :
        LET requests == IF o = "not_connected" THEN 0 ELSE 1
        IN  IF o = "text"
            THEN \E content \in Contents :
                    lastOp' = Observe("call_tool", i,
                                ClientCallToolAnswered(tool_name, content).raised,
                                ClientCallToolAnswered(tool_name, content).text,
                                requests, Some(content), Released)
            ELSE lastOp' = Observe("call_tool", i,
                                ClientCallTool(tool_name, o).raised,
                                ClientCallTool(tool_name, o).text,
                                requests, None, Released)
    /\ UNCHANGED <<registry, conversation, sanitized>>

\* client.disconnect()
Disconnect(i) ==
    /\ clients' = [clients EXCEPT ![i] = ClientDisconnect(@).client]
    /\ lastOp' = Observe("disconnect", i, ClientDisconnect(clients[i]).raised,
                         <<>>, 0, None,
                         IF clients[i].exit_stack = "open"
                         THEN Released \cup {i} ELSE Released)
    /\ UNCHANGED <<mcps, connected, conversation, sanitized>>

ClientNext ==
    \/ \E i \in 1..Len(clients) : Connect(i)
    \/ \E i \in 1..Len(clients) : CallTool(i)
    \/ \E i \in 1..Len(clients) : Disconnect(i)

ClientSpec == Init /\ [][ClientNext]_vars

-----------------------------------------------------------------------------
(* The registry on its own: it starts empty, add_mcp is called with any
   names and configurations, then connect_all.  As in the program, where
   add_mcp is called from _initialize_mcps only, every add_mcp comes before
   the first connect.  Here the entries of mcps and the clients keep the
   configuration they were given. *)

\* the names and configurations add_mcp is given
RegistryNames == {"p1", "p2"}

Configs == {"config1", "config2"}

\* the add_mcp calls made so far, in call order
Calls == IF lastOp = None THEN <<>> ELSE lastOp[1].calls

\* MCPRegistry.__init__
RegistryInit ==
    /\ mcps = <<>>
    /\ clients = <<>>
    /\ connected = <<>>
    /\ pc = "idle"
    /\ connectIdx = 1
    /\ messages = <<>>
    /\ available_tools = <<>>
    /\ conversation_turn = 0
    /\ response = None
    /\ tool_calls = <<>>
    /\ retval = None
    /\ error = None
    /\ apiCalls = 0
    /\ apiOutcome = "none"
    /\ dispatched = None
    /\ script = "free"
    /\ runs = 0
    /\ lastOp = None
    /\ sanitized = None

\* registry.add_mcp(name, config)
RegistryAddMcp ==
    /\ pc = "idle"
    /\ Len(Calls) < MaxAdds
    /\ \A i \in 1..Len(clients) : clients[i].attempts = 0
    /\ \E name \in RegistryNames, config \in Configs :
        /\ mcps' = AddMcp(mcps, clients, name, config).mcps
        /\ clients' = AddMcp(mcps, clients, name, config).clients
        /\ lastOp' = Some([op |-> "add_mcp", name |-> name, config |-> config,
                            calls |-> Append(Calls, McpEntry(name, config))])
    /\ UNCHANGED <<connected, conversation, sanitized>>

\* registry.connect_all() is called
RegistryConnectAll ==
    /\ pc = "idle"
    /\ \A i \in 1..Len(clients) : clients[i].attempts < MaxConnects
    /\ pc' = "connect"
    /\ connectIdx' = 1
    /\ UNCHANGED <<registry, messages, available_tools, conversation_turn,
                   response, tool_calls, retval, error, apiCalls, apiOutcome,
                   dispatched, script, runs, probes>>

\* connect_all returns
RegistryConnectAllReturns ==
    /\ pc = "connect"
    /\ connectIdx > Len(clients)
    /\ pc' = "idle"
    /\ UNCHANGED <<registry, connectIdx, messages, available_tools,
                   conversation_turn, response, tool_calls, retval, error,
                   apiCalls, apiOutcome, dispatched, script, runs, probes>>

RegistryNext ==
    \/ RegistryAddMcp
    \/ RegistryConnectAll
    \/ ConnectClient
    \/ RegistryConnectAllReturns

RegistrySpec == RegistryInit /\ [][RegistryNext]_vars

-----------------------------------------------------------------------------
(* The agent's construction and its choice of model name, on their own *)

\* the prompt file: missing, or there with some content
PromptTokens == {"You are", " ", "\n"}

PromptFiles ==
    {None} \cup {Some(t) : t \in UNION {[1..n -> PromptTokens] : n \in 0..MaxText}}

\* config/mcps.json: missing, not JSON, JSON but not an object, or an object
\* whose "mcpServers" holds these servers
ConfigFiles ==
    {[state |-> f, servers |-> <<>>] :
        f \in {"missing", "invalid_json", "not_an_object"}}
        \cup {[state |-> "object", servers |-> names] :
                names \in {<<>>, <<"p1">>, <<"p2", "p1">>}}

AuthOutcomes == {"ok", "fails"}

\* the environment: a model variable is unset, or set to some text
ModelTokens == {"claude", "@", "-"}

ModelEnv ==
    {None} \cup {Some(t) : t \in UNION {[1..n -> ModelTokens] : n \in 0..MaxText}}

\* KubeVirtAIAgent(auth_method)
Construct ==
    /\ lastOp = None
    /\ \E prompt_file \in PromptFiles, config_file \in ConfigFiles,
          auth \in AuthOutcomes :
        LET agent == ConstructAgent(prompt_file, config_file, auth)
        IN  lastOp' = Some([op |-> "construct", prompt_file |-> prompt_file,
                            config_file |-> config_file, auth |-> auth,
                            raised |-> agent.raised, error |-> agent.error,
                            agent_prompt |-> agent.agent_prompt,
                            mcps |-> agent.mcps])
    /\ UNCHANGED <<registry, conversation, sanitized>>

\* agent._get_model_name(use_fast_model)
ModelName ==
    /\ lastOp = None
    /\ \E vertex \in BOOLEAN, use_fast_model \in BOOLEAN,
          env_model \in ModelEnv, env_fast_model \in ModelEnv :
        lastOp' = Some([op |-> "_get_model_name", vertex |-> vertex,
                        use_fast_model |-> use_fast_model,
                        env_model |-> env_model,
                        env_fast_model |-> env_fast_model,
                        model |-> GetModelName(vertex, use_fast_model,
                                               env_model, env_fast_model)])
    /\ UNCHANGED <<registry, conversation, sanitized>>

AgentNext ==
    \/ Construct
    \/ ModelName

AgentSpec == Init /\ [][AgentNext]_vars

-----------------------------------------------------------------------------
(* The sessions of a registry: connect_all any number of times (every
   process_query starts with one), then disconnect_all.  Every connect()
   creates an exit stack of its own, which holds the server process and the
   session once they are entered; the stacks still open are counted per
   client. *)

\* per client, the exit stacks that have been entered and not closed
OpenStacks ==
    IF lastOp = None THEN [i \in 1..Len(clients) |-> 0]
    ELSE lastOp[1].open_stacks

\* connect_all: one iteration of its loop.  connect() assigns a new stack to
\* self.exit_stack without closing the one that was there; the new stack is
\* closed by connect() itself when the attempt fails.
TrackedConnect ==
    /\ pc = "connect"
    /\ connectIdx <= Len(clients)
    /\ \E o \in ConnectOutcomes :
        /\ clients' = [clients EXCEPT
                         ![connectIdx] = ClientAfterConnect(@, o)]
        /\ connected' = IF ConnectReturns(o)
                        THEN DictSet(connected, clients[connectIdx].name)
                        ELSE connected
        /\ lastOp' = Some([op |-> "connect", client |-> connectIdx,
                            outcome |-> o,
                            open_stacks |->
                                [OpenStacks EXCEPT ![connectIdx] =
                                    IF o = "ok" THEN @ + 1 ELSE @]])
    /\ connectIdx' = connectIdx + 1
    /\ UNCHANGED <<mcps, pc, messages, available_tools, conversation_turn,
                   response, tool_calls, retval, error, apiCalls, apiOutcome,
                   dispatched, script, runs, sanitized>>

\* registry.disconnect_all(): disconnect() closes the stack the client holds
\* now, if it is open
TrackedDisconnectAll ==
    /\ pc = "idle"
    /\ pc' = "exited"
    /\ clients' = DisconnectAll(clients, connected).clients
    /\ connected' = DisconnectAll(clients, connected).connected
    /\ lastOp' = Some([op |-> "disconnect_all", client |-> 0,
                        outcome |-> "done",
                        open_stacks |->
                            [i \in 1..Len(clients) |->
                                IF /\ clients[i].name \in Range(connected)
                                   /\ clients[i].exit_stack = "open"
                                THEN OpenStacks[i] - 1 ELSE OpenStacks[i]]])
    /\ UNCHANGED <<mcps, connectIdx, messages, available_tools,
                   conversation_turn, response, tool_calls, retval, error,
                   apiCalls, apiOutcome, dispatched, script, runs, sanitized>>

SessionNext ==
    \/ RegistryConnectAll
    \/ TrackedConnect
    \/ RegistryConnectAllReturns
    \/ TrackedDisconnectAll

SessionSpec == Init /\ [][SessionNext]_vars

-----------------------------------------------------------------------------
(* execute_shell_command on its own *)

\* the commands the model asks for
Commands ==
    {<<"ls">>, <<"ls", "[", "opt", "]">>, <<"ls", "[", "/", "opt", "]">>}

\* what a command writes to standard output or standard error
OutputTokens == {" ", "\n", "ok"}

Outputs == UNION {[1..n -> OutputTokens] : n \in 0..MaxOutput}

ExitCodes == {"1", "127"}

\* (the function keeps no state, so one call per behaviour shows them all)
RunShellCommand ==
    /\ lastOp = None
    /\ \E command \in Commands, out \in Outputs, err \in Outputs,
          code \in ExitCodes, forked \in BOOLEAN :
        \E o \in ShellCallOutcomes(command) :
            LET res == ExecuteShellCommandCall(command, o, code, out, err, forked)
            IN  lastOp' = Some([op |-> "shell", command |-> command,
                                outcome |-> o, code |-> code, stdout |-> out,
                                stderr |-> err, forked |-> forked,
                                raised |-> res.raised, text |-> res.text,
                                left_running |-> res.left_running])
    /\ UNCHANGED <<registry, conversation, sanitized>>

ShellNext == RunShellCommand

ShellSpec == Init /\ [][ShellNext]_vars

-----------------------------------------------------------------------------
(* The result sanitizer on its own: it is applied to every raw text *)

\* the characters the sanitizer rewrites, and one word it leaves alone
RawTokens == {"[", "/", "\\", "]", "<", ">", "script"}

RawTexts == UNION {[1..n -> RawTokens] : n \in 0..MaxText}

\* (the function is pure, so one call per behaviour shows them all)
SanitizeText ==
    \E raw \in RawTexts :
        /\ sanitized = None
        /\ sanitized' = Some([raw |-> raw, text |-> Sanitize(raw)])
        /\ UNCHANGED <<registry, pc, connectIdx, messages, available_tools,
                       conversation_turn, response, tool_calls, retval, error,
                       apiCalls, apiOutcome, dispatched, script, runs, lastOp>>

SanitizeNext == SanitizeText

SanitizeSpec == Init /\ [][SanitizeNext]_vars

-----------------------------------------------------------------------------
(* Properties *)

AssistantIdxs == {i \in 1..Len(messages) : messages[i].type = "blocks"}

ToolUseIdxs(content) == {k \in 1..Len(content) : content[k].type = "tool_use"}

\* the tool-result messages that directly follow the message i
ResultIdxsAfter(i) ==
    {j \in (i + 1)..Len(messages) :
        \A m \in (i + 1)..j : messages[m].type = "tool_result"}

\* the text segments of a content, concatenated in order
TextOf(content) ==
    Flatten([k \in 1..Len(content) |->
                IF content[k].type = "text" THEN content[k].text ELSE <<>>])

LastAssistantIdx == CHOOSE i \in AssistantIdxs : \A j \in AssistantIdxs : j <= i

\* the first client in registration order that is connected and advertises n
Advertisers(n) ==
    {i \in 1..Len(mcps) :
        /\ mcps[i] \in Range(connected)
        /\ n \in Range(ClientNamed(clients, mcps[i]).tools)}

\* C1: whenever process_query is about to issue an endpoint call (or to leave
\* the loop), every earlier needs-tools turn with N requests is followed in
\* the history by exactly N tool-result messages, one per request id
C1_ResultsMatchRequests ==
    pc = "loop" =>
        /\ Cardinality(AssistantIdxs) = apiCalls
        /\ \A i \in AssistantIdxs :
            LET content == messages[i].content
                results == ResultIdxsAfter(i)
            IN  /\ Cardinality(results) = Cardinality(ToolUseIdxs(content))
                /\ \A k \in ToolUseIdxs(content) :
                    Cardinality({j \in results :
                        messages[j].tool_use_id = content[k].id}) = 1
                /\ \A j \in results :
                    \E k \in ToolUseIdxs(content) :
                        messages[j].tool_use_id = content[k].id

\* a turn with two requests has been answered and the next endpoint call
\* has been issued
C1_Witness ==
    /\ apiCalls = 2
    /\ Len(messages) = 4
    /\ Cardinality(ToolUseIdxs(messages[2].content)) = 2
    /\ Cardinality(ResultIdxsAfter(2)) = 2

\* C2: a run never issues more than 50 endpoint calls
C2_TurnsBounded == apiCalls <= max_safety_turns

\* the fiftieth endpoint call has been issued
C2_Witness == apiCalls = max_safety_turns /\ apiOutcome = "answered"

\* C3: once all 50 turns have ended in a needs-tools response the run does
\* not raise, and when it has returned, it has returned the text of the
\* fiftieth response
C3_SafetyValveReturnsLastText ==
    Cardinality(AssistantIdxs) = max_safety_turns
        => /\ pc \in {"tools", "loop", "returned"}
           /\ error = None
           /\ pc = "returned" =>
                retval = Some(TextOf(messages[LastAssistantIdx].content))

\* C4: a failed provider call does not abort process_query; its error text
\* becomes the result appended for the request
C4_ProviderFailureAbsorbed ==
    (dispatched # None /\ dispatched[1].outcome = "error")
        => /\ error = None
           /\ \E j \in 1..Len(messages) :
                /\ messages[j].type = "tool_result"
                /\ messages[j].tool_use_id = dispatched[1].call.id

\* C5: process_query raises only when an endpoint call failed
C5_OnlyEndpointFailureRaises ==
    pc = "raised" => apiOutcome = "raised"

\* C6: a failed endpoint call aborts the run at that turn: the error
\* propagates, nothing is returned, and until a new process_query starts no
\* endpoint call, dispatch or history change happens
C6_EndpointFailureAborts ==
    /\ [](apiOutcome = "raised" =>
            /\ pc = "raised"
            /\ error # None
            /\ error[1].source = "endpoint"
            /\ retval = None)
    /\ [][apiOutcome = "raised" =>
            \/ runs' = runs + 1
            \/ /\ apiCalls' = apiCalls
               /\ dispatched' = dispatched
               /\ messages' = messages
               /\ retval' = retval]_vars

\* an endpoint call failed after an earlier turn had dispatched a tool
C6_Witness ==
    /\ apiOutcome = "raised"
    /\ apiCalls = 2
    /\ dispatched # None

\* C7: dispatching a name that is neither the built-in nor advertised by a
\* connected client sends nothing to the shell or a client, raises nothing,
\* and appends "Tool '<name>' not found" as the request's result, after which
\* the loop goes on
C7_NotFoundIsText ==
    [][(/\ pc = "tools"
        /\ Head(tool_calls).name # BuiltinTool
        /\ Advertisers(Head(tool_calls).name) = {})
        => /\ dispatched'[1].sent = <<>>
           /\ error' = None
           /\ pc' \in {"tools", "loop"}
           /\ messages' = Append(messages,
                [role |-> "user", type |-> "tool_result",
                 tool_use_id |-> Head(tool_calls).id,
                 content |-> <<"Tool '", Head(tool_calls).name, "' not found">>])
      ]_vars

\* an unknown tool has been dispatched and the next endpoint call is due
C7_Witness ==
    /\ pc = "loop"
    /\ dispatched # None
    /\ dispatched[1].call.name = "nope"
    /\ dispatched[1].sent = <<>>
    /\ messages[Len(messages)].content = <<"Tool '", "nope", "' not found">>

\* C8: the built-in name is always dispatched to the shell executor and to
\* no client, whatever the connected clients advertise
C8_BuiltinRoutesToShell ==
    (dispatched # None /\ dispatched[1].call.name = BuiltinTool)
        => /\ Len(dispatched[1].sent) = 1
           /\ dispatched[1].sent[1].to = "shell"

\* the built-in name was dispatched while a connected client advertises it
C8_Witness ==
    /\ dispatched # None
    /\ dispatched[1].call.name = BuiltinTool
    /\ Advertisers(BuiltinTool) # {}
    /\ dispatched[1].sent[1].to = "shell"

\* C9: a name other than the built-in that some connected client advertises
\* is dispatched, with the request's arguments, to exactly one client: the
\* first in registration order among the connected clients advertising it
C9_FirstRegisteredProvider ==
    (/\ dispatched # None
     /\ dispatched[1].call.name # BuiltinTool
     /\ Advertisers(dispatched[1].call.name) # {})
        => LET n == dispatched[1].call.name
               first == CHOOSE i \in Advertisers(n) :
                            \A j \in Advertisers(n) : i <= j
           IN  dispatched[1].sent =
                    <<[to |-> mcps[first], name |-> n,
                       arguments |-> dispatched[1].call.input]>>

\* C10: the payload appended for a tool call is the sanitized form of the
\* raw result of the call
C10_ResultsSanitizedOnce ==
    (dispatched # None /\ ~dispatched[1].raised)
        => \E j \in 1..Len(messages) :
            /\ messages[j].type = "tool_result"
            /\ messages[j].tool_use_id = dispatched[1].call.id
            /\ messages[j].content = Sanitize(dispatched[1].text)

\* C11: the sanitized text holds no "[" followed by "/", no "<" and no ">";
\* "<script>" becomes "&lt;script&gt;"; and a text holding none of "[/",
\* "\]", "<", ">" comes out unchanged
C11_SanitizeEscapes ==
    sanitized # None =>
        LET raw == sanitized[1].raw
            text == sanitized[1].text
        IN  /\ \A i \in 1..Len(text) : text[i] \notin {"<", ">"}
            /\ \A i \in 1..(Len(text) - 1) : ~(text[i] = "[" /\ text[i+1] = "/")
            /\ raw = <<"<", "script", ">">>
                    => text = <<"&lt;", "script", "&gt;">>
            /\ (/\ \A i \in 1..Len(raw) : raw[i] \notin {"<", ">"}
                /\ \A i \in 1..(Len(raw) - 1) :
                        /\ ~(raw[i] = "[" /\ raw[i+1] = "/")
                        /\ ~(raw[i] = "\\" /\ raw[i+1] = "]"))
                    => text = raw

C11_Witness ==
    /\ sanitized # None
    /\ sanitized[1].raw = <<"<", "script", ">">>
    /\ sanitized[1].text = <<"&lt;", "script", "&gt;">>

\* C12: a response whose stop reason is not tool_use ends the run on that
\* turn: process_query returns the texts of the response's text blocks,
\* joined in their order, the history is left as it was and no endpoint call
\* follows; when it is the first response, the run made one endpoint call
C12_NonToolResponseEndsRun ==
    /\ [][(/\ pc = "loop"
           /\ apiCalls' = apiCalls + 1
           /\ apiOutcome' = "answered"
           /\ response'[1].stop_reason # "tool_use")
            => (/\ pc' = "returned"
                /\ error' = None
                /\ retval' = Some(TextOf(response'[1].content))
                /\ messages' = messages)]_vars
    /\ [][(pc = "returned" /\ runs' = runs) => apiCalls' = apiCalls]_vars
    /\ [](pc = "returned" /\ conversation_turn = 1 => apiCalls = 1)

C12_Witness ==
    /\ pc = "returned"
    /\ apiCalls = 1
    /\ response[1].stop_reason = "max_tokens"
    /\ \E i \in 1..Len(response[1].content) :
            response[1].content[i].type = "tool_use"
    /\ retval = Some(<<"a", "b">>)

\* C13: every process_query that was started eventually returns or raises:
\* at any time, a time comes when no run is in progress
C13_EveryRunEnds ==
    []<>(pc \in {"idle", "returned", "raised"})

\* a run that ended at the safety bound, after fifty endpoint calls
C13_Witness ==
    /\ pc = "returned"
    /\ apiCalls = max_safety_turns
    /\ response[1].stop_reason = "tool_use"

\* the client i holds a live session through its current exit stack and is
\* in the registry's connected set
Connected(i) ==
    /\ clients[i].session = "open"
    /\ clients[i].exit_stack = "open"
    /\ clients[i].name \in Range(connected)

\* C14: no step touches a client that is already connected: its session, its
\* exit stack, its tool list and the count of its connect attempts stay as
\* they are, through the connect phase of a later run too
C14_ConnectPhaseIdempotent ==
    [][\A i \in 1..Len(clients) :
            Connected(i) => clients'[i] = clients[i]]_vars

\* C15: the connect phase calls connect() on every client whatever the
\* earlier ones did, ends in the conversation and never in a raise, and on a
\* fresh registry leaves in the connected set exactly the clients whose
\* connect succeeded
C15_ConnectedSetIsSuccesses ==
    /\ [](runs = 1 =>
            \A i \in 1..Len(clients) :
                IF pc = "connect" /\ i >= connectIdx
                THEN /\ clients[i].attempts = 0
                     /\ clients[i].name \notin Range(connected)
                ELSE /\ clients[i].attempts = 1
                     /\ clients[i].name \in Range(connected)
                            <=> clients[i].exit_stack = "open")
    /\ [][pc = "connect" =>
            \/ pc' = "connect" /\ connectIdx' = connectIdx + 1
            \/ pc' = "loop" /\ connectIdx > Len(clients) /\ error' = None]_vars

C15_Witness ==
    /\ runs = 1
    /\ pc = "loop"
    /\ clients[1].exit_stack = "closed"
    /\ clients[2].exit_stack = "open"
    /\ connected = <<clients[2].name>>
    /\ available_tools # <<>>

\* C16: once the connect phase of a run is over, every client has been
\* attempted once in that run, and a client whose connect failed in it is
\* not in the connected set for the rest of the run
C16_FailedProviderStaysOut ==
    pc \in {"loop", "tools", "returned", "raised"}
        => \A i \in 1..Len(clients) :
            /\ clients[i].attempts = runs
            /\ clients[i].exit_stack = "closed"
                    => clients[i].name \notin Range(connected)

\* C17: a client on which disconnect() ran while it was connected is never
\* connected again, whatever is called on it later
C17_DisconnectedIsTerminal ==
    \A i \in Released : clients[i].session # "open"

\* C18: call_tool on a client that holds no live session (never connected,
\* connect failed, or disconnected) raises "MCP client not connected" and
\* makes no request on any session
C18_NotConnectedCallFails ==
    (/\ lastOp # None
     /\ lastOp[1].op = "call_tool"
     /\ lastOp[1].before.session # "open")
        => /\ lastOp[1].raised
           /\ lastOp[1].text = <<"MCP client not connected">>
           /\ lastOp[1].requests = 0

\* C19: disconnect() never raises; on a client whose exit stack is not open
\* (never connected, connect failed, already disconnected) it changes
\* nothing; on a client connected through its exit stack it leaves the stack
\* and the session closed, and a second call leaves that state as it is; no
\* other client is touched
C19_DisconnectIdempotentTotal ==
    [][(lastOp' # lastOp /\ lastOp'[1].op = "disconnect")
        => LET i == lastOp'[1].client
               before == lastOp'[1].before
               after == clients'[i]
           IN  /\ ~lastOp'[1].raised
               /\ before = clients[i]
               /\ before.exit_stack # "open" => after = before
               /\ before.exit_stack = "open"
                    => /\ after.exit_stack = "closed"
                       /\ after.session = "closed"
               /\ ClientDisconnect(after).client = after
               /\ ~ClientDisconnect(after).raised
               /\ \A j \in 1..Len(clients) : j # i => clients'[j] = clients[j]]_vars

\* disconnect() called again on a client that it had disconnected
C19_Witness ==
    /\ lastOp # None
    /\ lastOp[1].op = "disconnect"
    /\ lastOp[1].client \in lastOp[1].released
    /\ lastOp[1].before.exit_stack = "closed"
    /\ lastOp[1].before.session = "closed"
    /\ ~lastOp[1].raised

\* C20: when the provider answers, call_tool returns the text of the first
\* text segment of the content, wherever it stands, and str(result) when the
\* content has no text segment
C20_FirstTextSegment ==
    (/\ lastOp # None
     /\ lastOp[1].op = "call_tool"
     /\ lastOp[1].content # None)
        => LET content == lastOp[1].content[1]
               texts == {k \in 1..Len(content) : content[k].type = "text"}
           IN  /\ ~lastOp[1].raised
               /\ lastOp[1].text =
                    IF texts = {} THEN StrOfResult
                    ELSE content[CHOOSE k \in texts :
                                    \A m \in texts : k <= m].text

\* C21: no name occurs twice in the catalog of a run
C21_CatalogNamesUnique ==
    \A i, j \in 1..Len(available_tools) :
        i # j => available_tools[i] # available_tools[j]

\* the tools of the i-th connected client, in the order it lists them
ToolsOfConnected(i) == clients[ClientIndex(clients, connected[i])].tools

\* C22: the catalog of a run is the tool lists of the connected clients, one
\* after the other in the order of the connected set, followed by the
\* built-in execute_shell_command as its last entry; with no connected client
\* it is the built-in alone
C22_CatalogBuiltinLast ==
    pc \in {"loop", "tools", "returned", "raised"}
        => /\ available_tools # <<>>
           /\ available_tools[Len(available_tools)] = BuiltinTool
           /\ connected = <<>> => available_tools = <<BuiltinTool>>
           /\ SubSeq(available_tools, 1, Len(available_tools) - 1)
                = Flatten([i \in 1..Len(connected) |-> ToolsOfConnected(i)])

C22_Witness ==
    /\ pc = "loop"
    /\ Len(connected) = 2
    /\ Len(available_tools) = 5
    /\ available_tools[5] = BuiltinTool

\* C23: the initial user message describes as available only servers that
\* are connected
C23_PromptListsConnectedOnly ==
    messages # <<>>
        => \A k \in 1..Len(messages[1].content.servers) :
                messages[1].content.servers[k] \in Range(connected)

\* C24: from the end of the connect phase to the end of the run no step
\* changes the registered servers, the clients (session, exit stack, tools,
\* attempts), the connected set or the catalog handed to the endpoint
C24_RegistryFrozenAfterConnect ==
    [][(pc \in {"loop", "tools"})
        => (registry' = registry /\ available_tools' = available_tools)]_vars

\* a run that went through a dispatch and the safety valve with a provider
\* connected
C24_Witness ==
    /\ pc = "returned"
    /\ apiCalls = max_safety_turns
    /\ response[1].stop_reason = "tool_use"
    /\ Len(connected) = 2
    /\ dispatched # None
    /\ dispatched[1].call.name = "list_vms"

\* C26: when the response of the fiftieth endpoint call asks for N tools,
\* the run ends by returning, with the N results of that turn, one per
\* request, as the last messages of the history
C26_BoundIsCooperative ==
    (/\ pc \in {"returned", "raised"}
     /\ apiCalls = max_safety_turns
     /\ apiOutcome = "answered"
     /\ response[1].stop_reason = "tool_use")
        => /\ pc = "returned"
           /\ LET i == LastAssistantIdx
                   asked == ToolUseIdxs(messages[i].content)
               IN  /\ ResultIdxsAfter(i) = (i + 1)..Len(messages)
                   /\ Cardinality(ResultIdxsAfter(i)) = Cardinality(asked)
                   /\ \A k \in asked : \E j \in ResultIdxsAfter(i) :
                        messages[j].tool_use_id = messages[i].content[k].id

\* s is an initial part of t
IsPrefix(s, t) == Len(s) <= Len(t) /\ SubSeq(t, 1, Len(s)) = s

\* C27: a run starts from an empty history, its conversation opens with
\* exactly one user message, every later step of the run leaves the messages
\* already there as they are, in place, and the next run starts empty again
C27_HistoryAppendOnly ==
    /\ [][IF runs' # runs
          THEN messages' = <<>>
          ELSE IF pc = "connect" /\ pc' = "loop"
               THEN (/\ messages = <<>>
                     /\ Len(messages') = 1
                     /\ messages'[1].role = "user"
                     /\ messages'[1].type = "prompt")
               ELSE IsPrefix(messages, messages')]_vars
    /\ [](pc = "connect" => messages = <<>>)

\* a second run whose history holds its prompt, a response and a result
C27_Witness ==
    /\ runs = 2
    /\ Len(messages) = 3
    /\ messages[1].type = "prompt"
    /\ messages[2].type = "blocks"
    /\ messages[3].type = "tool_result"

\* C25: the process that started process_query ends only after
\* disconnect_all: disconnect() was called on every client of the connected
\* set, none of them holds an open exit stack, and the connected set is empty
C25_TeardownBeforeExit ==
    pc = "exited"
        => /\ connected = <<>>
           /\ lastOp # None
           /\ lastOp[1].op = "disconnect_all"
           /\ lastOp[1].called = lastOp[1].before
           /\ \A i \in 1..Len(clients) :
                clients[i].name \in Range(lastOp[1].before)
                    => clients[i].exit_stack = "closed"

\* the process ended after a raise of process_query with a provider connected
C25_Witness ==
    /\ pc = "exited"
    /\ error # None
    /\ lastOp[1].before = <<"p1", "p2">>
    /\ clients[1].exit_stack = "closed"

\* C28: execute_shell_command raises nothing, whatever the command and
\* whatever becomes of it
C28_ShellNeverRaises ==
    (lastOp # None /\ lastOp[1].op = "shell") => ~lastOp[1].raised

\* the text s without its leading and trailing whitespace
Trimmed(s) ==
    LET solid == {i \in 1..Len(s) : s[i] \notin {" ", "\n"}}
    IN  IF solid = {} THEN <<>>
        ELSE SubSeq(s, CHOOSE i \in solid : \A j \in solid : i <= j,
                       CHOOSE i \in solid : \A j \in solid : j <= i)

\* C29: a command that exits 0 gives its standard output trimmed ("ok\n"
\* gives "ok"); a command that exits with another code gives, as a normal
\* result, a text holding the exit code and the trimmed standard error
C29_ShellResultTexts ==
    (lastOp # None /\ lastOp[1].op = "shell")
        => /\ lastOp[1].outcome = "exit0"
                => /\ ~lastOp[1].raised
                   /\ lastOp[1].text = Trimmed(lastOp[1].stdout)
                   /\ lastOp[1].stdout = <<"ok", "\n">>
                        => lastOp[1].text = <<"ok">>
           /\ lastOp[1].outcome = "nonzero"
                => /\ ~lastOp[1].raised
                   /\ lastOp[1].text =
                        <<"Command failed (exit code ", lastOp[1].code, "): ">>
                            \o Trimmed(lastOp[1].stderr)

C29_Witness ==
    /\ lastOp # None
    /\ lastOp[1].op = "shell"
    /\ lastOp[1].outcome = "exit0"
    /\ lastOp[1].stdout = <<"ok", "\n">>
    /\ lastOp[1].text = <<"ok">>

\* C30: a command that outlives the timeout gives the fixed timeout text,
\* and no process started for it is left running when the text is returned
C30_TimeoutLeavesNoProcess ==
    (lastOp # None /\ lastOp[1].op = "shell" /\ lastOp[1].outcome = "timeout")
        => /\ lastOp[1].text = <<"Command timed out after 30 seconds">>
           /\ ~lastOp[1].left_running

\* the add_mcp calls made so far all gave different names
DistinctNames ==
    \A j, k \in 1..Len(Calls) : Calls[j].name = Calls[k].name => j = k

\* C31: an empty registry lists nothing; after add_mcp calls with distinct
\* names list_mcps holds one entry per call, in call order, with the name
\* and the configuration given; get_mcp gives the entry registered under a
\* name and None for a name never registered; get_client gives None for a
\* client on which no connect has put a session
C31_RegistryBookkeeping ==
    /\ Calls = <<>> => ListMcps(mcps) = <<>>
    /\ DistinctNames =>
        /\ Len(ListMcps(mcps)) = Len(Calls)
        /\ \A k \in 1..Len(Calls) :
               /\ ListMcps(mcps)[k].name = Calls[k].name
               /\ ListMcps(mcps)[k].config = Calls[k].config
               /\ GetMcp(mcps, Calls[k].name) = Some(Calls[k])
        /\ \A n \in RegistryNames \cup {"nonexistent"} :
               /\ (\A k \in 1..Len(Calls) : Calls[k].name # n)
                    => GetMcp(mcps, n) = None /\ GetClient(clients, connected, n) = None
               /\ GetClient(clients, connected, n) # None
                    => /\ ClientNamed(clients, n).attempts > 0
                       /\ ClientNamed(clients, n).session # "none"

C31_Witness ==
    /\ Len(Calls) = 2
    /\ DistinctNames
    /\ Calls[1].name = "p2"
    /\ GetMcp(mcps, "p1") = Some(McpEntry("p1", "config2"))
    /\ GetClient(clients, connected, "p1") = None
    /\ GetClient(clients, connected, "p2") # None

\* C32: constructing the agent on a configuration file that is not valid
\* JSON fails with a ValueError that says "Agent path must be configured"
C32_InvalidJsonIsFatal ==
    (lastOp # None /\ lastOp[1].op = "construct"
        /\ lastOp[1].config_file.state = "invalid_json")
        => /\ lastOp[1].raised
           /\ lastOp[1].error = <<"ValueError: ", "Agent path must be configured">>

\* C33: constructing the agent when the prompt file is missing fails with
\* FileNotFoundError; when the file is there, agent_prompt is its content
C33_PromptFileLoaded ==
    (lastOp # None /\ lastOp[1].op = "construct")
        => /\ lastOp[1].prompt_file = None
                => /\ lastOp[1].raised
                   /\ lastOp[1].error = <<"FileNotFoundError">>
           /\ (lastOp[1].prompt_file # None /\ ~lastOp[1].raised)
                => lastOp[1].agent_prompt = lastOp[1].prompt_file[1]

\* the text s with every "@" turned into "-"
RECURSIVE Dashed(_)
Dashed(s) ==
    IF s = <<>> THEN <<>>
    ELSE <<IF Head(s) = "@" THEN "-" ELSE Head(s)>> \o Dashed(Tail(s))

\* C34: for a Vertex client _get_model_name gives the environment's value as
\* it is, or claude-sonnet-4@20250514 (fast: claude-3-5-haiku@20241022) when
\* unset; for a standard client it gives the environment's value, or
\* claude-3-5-sonnet-20241022 (fast: claude-3-5-haiku-20241022) when unset,
\* with every "@" replaced by "-", so that no "@" is left in it
C34_ModelName ==
    (lastOp # None /\ lastOp[1].op = "_get_model_name")
        => LET op == lastOp[1]
               env == IF op.use_fast_model THEN op.env_fast_model
                      ELSE op.env_model
           IN  /\ (op.vertex /\ env # None) => op.model = env[1]
               /\ (op.vertex /\ env = None /\ ~op.use_fast_model)
                    => op.model = <<"claude-sonnet-4", "@", "20250514">>
               /\ (op.vertex /\ env = None /\ op.use_fast_model)
                    => op.model = <<"claude-3-5-haiku", "@", "20241022">>
               /\ (~op.vertex /\ env # None) => op.model = Dashed(env[1])
               /\ (~op.vertex /\ env = None /\ ~op.use_fast_model)
                    => op.model = <<"claude-3-5-sonnet-20241022">>
               /\ (~op.vertex /\ env = None /\ op.use_fast_model)
                    => op.model = <<"claude-3-5-haiku-20241022">>
               /\ ~op.vertex => "@" \notin Range(op.model)

C34_Witness ==
    /\ lastOp # None
    /\ lastOp[1].op = "_get_model_name"
    /\ ~lastOp[1].vertex
    /\ ~lastOp[1].use_fast_model
    /\ lastOp[1].env_model = Some(<<"claude", "@", "@">>)
    /\ lastOp[1].model = <<"claude", "-", "-">>

IsToolUse(block) == block.type = "tool_use"

\* the requests of a response, in the order they appear in it
Requests(content) == SelectSeq(content, IsToolUse)

\* C35: the requests of a turn are dispatched one at a time in the order of
\* the response, each result being appended before the next dispatch: while
\* a turn's requests are being run, the history ends with the assistant
\* message holding the response and the results of the requests dispatched
\* so far, in request order, the latest dispatch is the last of them, and
\* what is left to run is the rest of the requests in order.  So whenever an
\* endpoint call is about to be issued the history is the user's message
\* followed, turn by turn, by the assistant message holding the response and
\* one tool-result message per request, in request order
C35_DispatchInRequestOrder ==
    /\ pc = "tools" =>
            LET calls == Requests(response[1].content)
                done == Len(calls) - Len(tool_calls)
                last == Len(messages) - done
            IN  /\ done >= 0
                /\ last >= 2
                /\ tool_calls = SubSeq(calls, done + 1, Len(calls))
                /\ messages[last].type = "blocks"
                /\ messages[last].content = response[1].content
                /\ \A k \in 1..done :
                        /\ messages[last + k].type = "tool_result"
                        /\ messages[last + k].tool_use_id = calls[k].id
                /\ done > 0 => /\ dispatched # None
                               /\ dispatched[1].call = calls[done]
    /\ pc = "loop" =>
            /\ messages[1].type = "prompt"
            /\ \A j \in 2..Len(messages) :
                    messages[j].type \in {"blocks", "tool_result"}
            /\ Len(messages) >= 2 =>
                    /\ messages[2].type = "blocks"
                    /\ LET n == Len(Requests(response[1].content))
                       IN  /\ Len(messages) - n >= 2
                           /\ messages[Len(messages) - n].type = "blocks"
                           /\ messages[Len(messages) - n].content
                                    = response[1].content
            /\ \A i \in AssistantIdxs :
                    LET calls == Requests(messages[i].content)
                    IN  /\ i + Len(calls) <= Len(messages)
                        /\ \A k \in 1..Len(calls) :
                                /\ messages[i + k].type = "tool_result"
                                /\ messages[i + k].tool_use_id = calls[k].id
                        /\ i + Len(calls) < Len(messages)
                                => messages[i + Len(calls) + 1].type = "blocks"

\* a second endpoint call is about to be issued after two turns, one of
\* which held two requests
C35_Witness ==
    /\ pc = "loop"
    /\ Cardinality(AssistantIdxs) >= 2
    /\ \E i \in AssistantIdxs :
            /\ Len(Requests(messages[i].content)) = 2
            /\ messages[i + 1].tool_use_id # messages[i + 2].tool_use_id

\* C36: once a response whose stop reason is not tool_use has come in, the
\* run has ended on that turn; none of the requests the response may hold
\* has been dispatched or has a result in the history, and the history holds
\* no assistant message for the turn, only those of the turns before it
C36_NoDispatchOnTerminalTurn ==
    (response # None /\ response[1].stop_reason # "tool_use")
        => /\ pc = "returned"
           /\ conversation_turn = apiCalls
           /\ tool_calls = <<>>
           /\ Cardinality(AssistantIdxs) = apiCalls - 1
           /\ \A k \in 1..Len(Requests(response[1].content)) :
                LET id == Requests(response[1].content)[k].id
                IN  /\ \A j \in 1..Len(messages) :
                            messages[j].type = "tool_result"
                                => messages[j].tool_use_id # id
                    /\ dispatched # None => dispatched[1].call.id # id

\* a response cut off by the token limit, holding a request, came in on a
\* turn that followed one on which tools were run
C36_Witness ==
    /\ pc = "returned"
    /\ apiCalls >= 2
    /\ dispatched # None
    /\ response[1].stop_reason = "max_tokens"
    /\ Len(Requests(response[1].content)) = 1
    /\ messages[Len(messages)].type = "tool_result"

\* C37: a dispatch of a name that is in the catalog sent to the endpoint goes
\* to the shell executor or to a client of the connected set that advertises
\* the name, and its result is never "Tool '<name>' not found"
C37_CatalogNamesResolve ==
    (dispatched # None /\ dispatched[1].call.name \in Range(available_tools))
        => /\ dispatched[1].text
                # <<"Tool '", dispatched[1].call.name, "' not found">>
           /\ Len(dispatched[1].sent) = 1
           /\ \/ dispatched[1].sent[1].to = "shell"
              \/ \E i \in 1..Len(clients) :
                    /\ clients[i].name = dispatched[1].sent[1].to
                    /\ clients[i].name \in Range(connected)
                    /\ dispatched[1].call.name \in Range(clients[i].tools)

\* a name that only the second connected client advertises was dispatched,
\* on a turn after the first
C37_Witness ==
    /\ dispatched # None
    /\ connected = <<"p1", "p2">>
    /\ conversation_turn >= 2
    /\ dispatched[1].call.name = "list_vms"
    /\ "list_vms" \in Range(available_tools)
    /\ dispatched[1].sent[1].to = "p2"

\* C38: once disconnect_all has completed, no exit stack entered by any
\* connect() on the registry's clients is still open: every server process
\* and session that was opened has been closed
C38_NoSessionLeaked ==
    pc = "exited" => \A i \in 1..Len(clients) : OpenStacks[i] = 0

\* C39: whatever the add_mcp calls, repeated names included, list_mcps has
\* exactly one entry per client of the registry, and get_mcp(name) gives the
\* configuration the client now registered under name was built from
C39_RegistryViewsConsistent ==
    /\ Len(ListMcps(mcps)) = Len(clients)
    /\ \A i \in 1..Len(clients) :
           /\ GetMcp(mcps, clients[i].name) # None
           /\ GetMcp(mcps, clients[i].name)[1].config = clients[i].config

=============================================================================
